---- MODULE Spec2Model ----
(***************************************************************************)
(* Model of watcher/watcher.py: the LogWatcher that tails the nginx access *)
(* log, tracks the serving pool and a sliding window of request outcomes,  *)
(* and sends failover / error-rate alerts to Slack under a cooldown.       *)
(*                                                                         *)
(* Text values are sequences of one-character strings, so that the         *)
(* substring, prefix, split and lower-case operations of the code are      *)
(* computed rather than assumed.  Optional JSON values are tagged records: *)
(*   [t |-> "none"], [t |-> "int", v |-> 503], [t |-> "str", v |-> <<..>>] *)
(***************************************************************************)
EXTENDS Integers, Sequences, FiniteSets, TLC

\* ------------------------------------------------------------------ bounds
\* A short stream: the records the source delivers when the window is small.
ShortStream == 5
\* A long stream delivers this many records more than the minimum sample count.
Overflow == 3
\* Largest value the wall clock (time.time()) takes.
MaxTime == 4
\* Most error records in one explored stream.
MaxErrors == 1
\* The small window capacity explored (below the minimum sample count).
SmallWindow == 3
\* Largest cooldown explored.
MaxCooldown == 2
\* Most direct calls of the notifier explored.
MaxCalls == 3
\* Records in a stream that exercises pool detection.
DetectStream == 2

\* ------------------------------------------------------- program constants
\* check_error_rate / process_log_entry: fewer window entries are not evaluated.
MinSamples == 20
\* __init__: the value both cooldown timestamps start from.
NeverAlerted == 0
\* check_error_rate: the significand bits of a Python float (an IEEE double).
Precision == 53
\* The large window capacity explored (above the minimum sample count).
LargeWindow == MinSamples + 1

\* ------------------------------------------------------------ Python values
NoneV == [t |-> "none"]
Absent == [t |-> "absent"]
IntV(n) == [t |-> "int", v |-> n]
StrV(s) == [t |-> "str", v |-> s]

\* ------------------------------------------------------------ text helpers
\* s[i..] starts with p
StartsWithAt(s, p, i) ==
    /\ i + Len(p) - 1 <= Len(s)
    /\ \A k \in 1..Len(p) : s[i + k - 1] = p[k]

\* Python: p in s
Contains(s, p) == \E i \in 1..(Len(s) + 1) : StartsWithAt(s, p, i)

\* Python: s.startswith(p)
StartsWith(s, p) == StartsWithAt(s, p, 1)

LowerChar(c) ==
    CASE c = "B" -> "b" [] c = "L" -> "l" [] c = "U" -> "u" [] c = "E" -> "e"
      [] c = "G" -> "g" [] c = "R" -> "r" [] c = "N" -> "n"
      [] OTHER -> c

\* Python: s.lower()
Lower(s) == [i \in 1..Len(s) |-> LowerChar(s[i])]

IsSpace(c) == c = " "

RECURSIVE LStrip(_)
LStrip(s) == IF s # <<>> /\ IsSpace(Head(s)) THEN LStrip(Tail(s)) ELSE s

RECURSIVE RStrip(_)
RStrip(s) ==
    IF s # <<>> /\ IsSpace(s[Len(s)]) THEN RStrip(SubSeq(s, 1, Len(s) - 1)) ELSE s

\* Python: s.strip()
Strip(s) == LStrip(RStrip(s))

\* Python: s.split(','): the pieces between commas, empty pieces included
RECURSIVE SplitComma(_, _)
SplitComma(s, cur) ==
    IF s = <<>> THEN <<cur>>
    ELSE IF Head(s) = "," THEN <<cur>> \o SplitComma(Tail(s), <<>>)
    ELSE SplitComma(Tail(s), Append(cur, Head(s)))

\* Python: [a.strip() for a in pieces if a.strip()]
RECURSIVE StripNonEmpty(_)
StripNonEmpty(pieces) ==
    IF pieces = <<>> THEN <<>>
    ELSE IF Strip(Head(pieces)) # <<>>
         THEN <<Strip(Head(pieces))>> \o StripNonEmpty(Tail(pieces))
         ELSE StripNonEmpty(Tail(pieces))

\* ------------------------------------------------------------- environment
\* BLUE_IPS / GREEN_IPS as read by detect_pool_from_upstream (CSV, already split)
BLUE_IPS == << <<"1","7","2",".","1","8",".","0",".","2">> >>
GREEN_IPS == << <<"1","7","2",".","1","8",".","0",".","3">> >>

\* ----------------------------------------------- detect_pool_from_upstream
Pools == {<<"b","l","u","e">>, <<"g","r","e","e","n">>}

s_blue == <<"b","l","u","e">>
s_green == <<"g","r","e","e","n">>
s_8081 == <<"8","0","8","1">>
s_c8081 == <<":","8","0","8","1">>
s_8082 == <<"8","0","8","2">>
s_c8082 == <<":","8","0","8","2">>

AnyIn(ips, last_addr) == \E i \in 1..Len(ips) : Contains(last_addr, ips[i])

\* upstream_addr is the text str(upstream_addr)
LastAddr(upstream_addr) ==
    LET addr_lower == Lower(upstream_addr)
        addrs == StripNonEmpty(SplitComma(addr_lower, <<>>))
    IN  IF addrs # <<>> THEN addrs[Len(addrs)] ELSE addr_lower

\* ------------------------------------------------------ int() and str()
Digits == <<"0","1","2","3","4","5","6","7","8","9">>

IsDigit(c) == \E d \in 1..10 : Digits[d] = c

DigitVal(c) == (CHOOSE d \in 1..10 : Digits[d] = c) - 1

RECURSIVE DigitsVal(_, _)
DigitsVal(s, acc) ==
    IF s = <<>> THEN acc ELSE DigitsVal(Tail(s), acc * 10 + DigitVal(Head(s)))

\* Python: int(text) succeeds on optional blanks around an optionally signed digit run
IntParses(s) ==
    LET b == Strip(s)
        d == IF b # <<>> /\ Head(b) \in {"+", "-"} THEN Tail(b) ELSE b
    IN  d # <<>> /\ \A i \in 1..Len(d) : IsDigit(d[i])

IntOfText(s) ==
    LET b == Strip(s)
        neg == b # <<>> /\ Head(b) = "-"
        d == IF b # <<>> /\ Head(b) \in {"+", "-"} THEN Tail(b) ELSE b
    IN  IF neg THEN 0 - DigitsVal(d, 0) ELSE DigitsVal(d, 0)

RECURSIVE NatToText(_)
NatToText(n) ==
    IF n < 10 THEN <<Digits[n + 1]>> ELSE Append(NatToText(n \div 10), Digits[(n % 10) + 1])

\* Python: str(v) of a JSON number or text
StrOf(v) ==
    IF v.t = "str" THEN v.v
    ELSE IF v.v < 0 THEN <<"-">> \o NatToText(0 - v.v) ELSE NatToText(v.v)

\* Python truthiness of an optional JSON value
Truthy(v) ==
    CASE v.t = "none" -> FALSE
      [] v.t = "absent" -> FALSE
      [] v.t = "int" -> v.v # 0
      [] v.t = "str" -> v.v # <<>>

\* int(status) raises ValueError
IntRaises(v) == v.t = "str" /\ ~IntParses(v.v)

IntOf(v) == IF v.t = "int" THEN v.v ELSE IntOfText(v.v)

\* Faulty variant (C12): the ports are looked for before the service names.
detect_pool_from_upstream_PortFirst(upstream_addr) ==
    IF ~Truthy(upstream_addr) THEN NoneV
    ELSE LET last_addr == LastAddr(StrOf(upstream_addr)) IN
         IF Contains(last_addr, s_c8081) \/ Contains(last_addr, s_8081)
              THEN StrV(s_blue)
         ELSE IF Contains(last_addr, s_c8082) \/ Contains(last_addr, s_8082)
              THEN StrV(s_green)
         ELSE IF Contains(last_addr, s_blue) THEN StrV(s_blue)
         ELSE IF Contains(last_addr, s_green) THEN StrV(s_green)
         ELSE IF StripNonEmpty(BLUE_IPS) # <<>>
                 /\ AnyIn(StripNonEmpty(BLUE_IPS), last_addr)
              THEN StrV(s_blue)
         ELSE IF StripNonEmpty(GREEN_IPS) # <<>>
                 /\ AnyIn(StripNonEmpty(GREEN_IPS), last_addr)
              THEN StrV(s_green)
         ELSE NoneV

\* upstream_addr is an optional JSON value; returns NoneV or the pool's name
detect_pool_from_upstream(upstream_addr) ==
    IF ~Truthy(upstream_addr) THEN NoneV
    ELSE LET last_addr == LastAddr(StrOf(upstream_addr)) IN
         IF Contains(last_addr, s_blue) THEN StrV(s_blue)
         ELSE IF Contains(last_addr, s_green) THEN StrV(s_green)
         ELSE IF Contains(last_addr, s_c8081) \/ Contains(last_addr, s_8081)
              THEN StrV(s_blue)
         ELSE IF Contains(last_addr, s_c8082) \/ Contains(last_addr, s_8082)
              THEN StrV(s_green)
         ELSE IF StripNonEmpty(BLUE_IPS) # <<>>
                 /\ AnyIn(StripNonEmpty(BLUE_IPS), last_addr)
              THEN StrV(s_blue)
         ELSE IF StripNonEmpty(GREEN_IPS) # <<>>
                 /\ AnyIn(StripNonEmpty(GREEN_IPS), last_addr)
              THEN StrV(s_green)
         ELSE NoneV

\* ------------------------------------------------------------ the program
VARIABLES
    slack_webhook,          \* SLACK_WEBHOOK_URL is set
    active_pool,
    error_rate_threshold,
    window_size,
    alert_cooldown,
    maintenance_mode,
    last_pool,
    request_window,
    last_failover_alert,
    last_error_rate_alert,
    log_count,
    pc,                     \* "main", "wait", "tail", "exit1"
    now,                    \* latest reading of time.time()
    calls,                  \* history: every send_slack_alert call, in order
    posts,                  \* history: number of requests.post calls made
    last_send,              \* history: outcome of the latest send_slack_alert call
    pushed,                 \* history: every outcome appended to request_window
    last_rate,              \* history: the rate check_error_rate computed last
    last_read,              \* history: the latest line read (its JSON kind, the
                            \*   pool of its record, whether handling it raises,
                            \*   its parsed value, the alerts it raised) and held: the pool of the
                            \*   change the cooldown suppressed on the lines
                            \*   just before, kept by a line that alerts
    stream_len,             \* environment: records the source delivers in all
    stream_errors,          \* environment: failed requests it reports in all
    source                  \* environment: the lines the source can deliver

config == <<slack_webhook, active_pool, error_rate_threshold, window_size,
            alert_cooldown, maintenance_mode, stream_len, stream_errors,
            source>>

vars == <<slack_webhook, active_pool, error_rate_threshold, window_size,
          alert_cooldown, maintenance_mode, last_pool, request_window,
          last_failover_alert, last_error_rate_alert, log_count, pc, now,
          calls, posts, last_send, pushed, last_rate, last_read, stream_len,
          stream_errors, source>>

\* What requests.post can do: answer 200, answer another status, or raise
\* (connection error, timeout).
Transports == {"200", "non200", "exception"}

NoSend == [type |-> "none", attempted |-> FALSE, result |-> FALSE]

\* The watcher's mutable fields and the histories, as one value the methods
\* below take and return; raised is TRUE while an exception propagates.
Self ==
    [last_pool |-> last_pool, request_window |-> request_window,
     last_failover_alert |-> last_failover_alert,
     last_error_rate_alert |-> last_error_rate_alert,
     log_count |-> log_count, now |-> now, calls |-> calls, posts |-> posts,
     last_send |-> last_send, pushed |-> pushed, last_rate |-> last_rate,
     raised |-> FALSE]

\* send_slack_alert reaches requests.post
Attempts(alert_type) ==
    /\ slack_webhook
    /\ ~(maintenance_mode /\ alert_type # "critical")

\* Faulty variant (C8): maintenance mode suppresses every alert type.
send_slack_alert_MuteAll(self, call, transport) ==
    IF ~slack_webhook \/ maintenance_mode
    THEN [self EXCEPT !.calls = Append(@, call),
                      !.last_send = [type |-> call.type, attempted |-> FALSE,
                                     result |-> FALSE]]
    ELSE [self EXCEPT !.calls = Append(@, call),
                      !.posts = @ + 1,
                      !.last_send = [type |-> call.type, attempted |-> TRUE,
                                     result |-> (transport = "200")]]

\* Faulty variant (C9): the maintenance-mode check is missing.
send_slack_alert_NoMute(self, call, transport) ==
    IF ~slack_webhook
    THEN [self EXCEPT !.calls = Append(@, call),
                      !.last_send = [type |-> call.type, attempted |-> FALSE,
                                     result |-> FALSE]]
    ELSE [self EXCEPT !.calls = Append(@, call),
                      !.posts = @ + 1,
                      !.last_send = [type |-> call.type, attempted |-> TRUE,
                                     result |-> (transport = "200")]]

\* Faulty variant (C10): an exception of requests.post is not caught.
send_slack_alert_Raising(self, call, transport) ==
    IF ~slack_webhook \/ (maintenance_mode /\ call.type # "critical")
    THEN [self EXCEPT !.calls = Append(@, call),
                      !.last_send = [type |-> call.type, attempted |-> FALSE,
                                     result |-> FALSE]]
    ELSE [self EXCEPT !.calls = Append(@, call),
                      !.posts = @ + 1,
                      !.last_send = [type |-> call.type, attempted |-> TRUE,
                                     result |-> (transport = "200")],
                      !.raised = (transport = "exception")]

\* call: the alert (type and what the message names); transport: what
\* requests.post does if it is reached
send_slack_alert(self, call, transport) ==
    IF ~slack_webhook
    THEN [self EXCEPT !.calls = Append(@, call),
                      !.last_send = [type |-> call.type, attempted |-> FALSE,
                                     result |-> FALSE]]
    ELSE IF maintenance_mode /\ call.type # "critical"
    THEN [self EXCEPT !.calls = Append(@, call),
                      !.last_send = [type |-> call.type, attempted |-> FALSE,
                                     result |-> FALSE]]
    ELSE [self EXCEPT !.calls = Append(@, call),
                      !.posts = @ + 1,
                      !.last_send = [type |-> call.type, attempted |-> TRUE,
                                     result |-> (transport = "200")]]

\* ---------------------------------------------------------- check_failover
\* pool is a text; the clock is read only past the two early returns
FailoverReadsClock(self, pool) == pool # <<>> /\ pool # self.last_pool

\* Faulty variant (C19): the timestamp is set only when the alert was delivered.
Alerted_OnlyDelivered(sent, field, current_time) ==
    IF sent.raised \/ ~sent.last_send.result THEN sent
    ELSE IF field = "failover"
    THEN [sent EXCEPT !.last_failover_alert = current_time]
    ELSE [sent EXCEPT !.last_error_rate_alert = current_time]

\* lines 184-185, unless send_slack_alert raised
Alerted(sent, field, current_time) ==
    IF sent.raised THEN sent
    ELSE IF field = "failover"
    THEN [sent EXCEPT !.last_failover_alert = current_time]
    ELSE [sent EXCEPT !.last_error_rate_alert = current_time]

\* Faulty variant (C1): the cooldown check is missing.
check_failover_NoCooldown(self, pool, current_time, transport) ==
    IF pool = <<>> THEN self
    ELSE IF pool = self.last_pool THEN self
    ELSE Alerted(send_slack_alert(
                     [self EXCEPT !.now = current_time, !.last_pool = pool],
                     [type |-> "failover", at |-> current_time,
                      old_pool |-> self.last_pool, pool |-> pool],
                     transport),
                 "failover", current_time)

\* Faulty variant (C2): last_pool is assigned before the cooldown check.
check_failover_EagerPool(self, pool, current_time, transport) ==
    IF pool = <<>> THEN self
    ELSE IF pool = self.last_pool THEN self
    ELSE IF current_time - self.last_failover_alert < alert_cooldown
    THEN [self EXCEPT !.now = current_time, !.last_pool = pool]
    ELSE Alerted(send_slack_alert(
                     [self EXCEPT !.now = current_time, !.last_pool = pool],
                     [type |-> "failover", at |-> current_time,
                      old_pool |-> self.last_pool, pool |-> pool],
                     transport),
                 "failover", current_time)

\* Faulty variant (C15): a suppressed detection restarts the cooldown.
check_failover_Debounced(self, pool, current_time, transport) ==
    IF pool = <<>> THEN self
    ELSE IF pool = self.last_pool THEN self
    ELSE IF current_time - self.last_failover_alert < alert_cooldown
    THEN [self EXCEPT !.now = current_time, !.last_failover_alert = current_time]
    ELSE Alerted(send_slack_alert(
                     [self EXCEPT !.now = current_time, !.last_pool = pool],
                     [type |-> "failover", at |-> current_time,
                      old_pool |-> self.last_pool, pool |-> pool],
                     transport),
                 "failover", current_time)

check_failover(self, pool, current_time, transport) ==
    IF pool = <<>> THEN self
    ELSE IF pool = self.last_pool THEN self
    ELSE IF current_time - self.last_failover_alert < alert_cooldown
    THEN [self EXCEPT !.now = current_time]
    ELSE Alerted(send_slack_alert(
                     [self EXCEPT !.now = current_time, !.last_pool = pool],
                     [type |-> "failover", at |-> current_time,
                      old_pool |-> self.last_pool, pool |-> pool],
                     transport),
                 "failover", current_time)

\* -------------------------------------------------------- check_error_rate
\* sum(1 for is_error in w if is_error)
CountTrue(w) == Cardinality({i \in DOMAIN w : w[i]})

\* ---- the double arithmetic of line 194
\* A positive double is its Precision significand bits, the most significant
\* (a 1) first, with the exponent of that first bit: its value is the sum of
\* m[i] * 2^(e - i + 1).  Zero has no bits.
Zero == [m |-> <<>>, e |-> 0]

\* the binary digits of a natural number, none for 0
RECURSIVE NatBits(_)
NatBits(n) == IF n = 0 THEN <<>> ELSE Append(NatBits(n \div 2), n % 2)

RECURSIVE BitsVal(_, _)
BitsVal(bits, acc) ==
    IF bits = <<>> THEN acc ELSE BitsVal(Tail(bits), 2 * acc + Head(bits))

\* bits + 1 on the same number of digits: all zeros when it overflows
RECURSIVE Increment(_)
Increment(bits) ==
    IF bits = <<>> THEN <<>>
    ELSE IF bits[Len(bits)] = 0 THEN [bits EXCEPT ![Len(bits)] = 1]
    ELSE Append(Increment(SubSeq(bits, 1, Len(bits) - 1)), 0)

\* Round to nearest, ties to even.  bits are the leading digits of the exact
\* result (the first a 1, more than Precision of them), sticky tells that
\* nonzero digits follow them, e is the exponent of the first digit.
RoundNearestEven(bits, sticky, e) ==
    LET kept == SubSeq(bits, 1, Precision)
        up == /\ bits[Precision + 1] = 1
              /\ \/ sticky
                 \/ \E i \in (Precision + 2)..Len(bits) : bits[i] = 1
                 \/ bits[Precision] = 1
    IN  IF ~up THEN [m |-> kept, e |-> e]
        ELSE IF Increment(kept)[1] = 1 THEN [m |-> Increment(kept), e |-> e]
        ELSE [m |-> [Increment(kept) EXCEPT ![1] = 1], e |-> e + 1]

\* the least k with a * 2^k >= b, and a * 2^k
RECURSIVE ShiftUp(_, _, _)
ShiftUp(a, b, k) == IF a >= b THEN [a |-> a, k |-> k] ELSE ShiftUp(2 * a, b, k + 1)

\* n more digits of the quotient r / b for a remainder r < b, and what remains
RECURSIVE DivBits(_, _, _, _)
DivBits(r, b, n, acc) ==
    IF n = 0 THEN [bits |-> acc, r |-> r]
    ELSE IF 2 * r >= b THEN DivBits(2 * r - b, b, n - 1, Append(acc, 1))
    ELSE DivBits(2 * r, b, n - 1, Append(acc, 0))

\* a / b in double arithmetic, for integers 0 <= a <= b, b > 0
FloatDiv(a, b) ==
    IF a = 0 THEN Zero
    ELSE RoundNearestEven(
             DivBits(ShiftUp(a, b, 0).a - b, b, Precision, <<1>>).bits,
             DivBits(ShiftUp(a, b, 0).a - b, b, Precision, <<1>>).r # 0,
             0 - ShiftUp(a, b, 0).k)

\* the digits of bits * c + carry, for a small natural c
RECURSIVE MulSmall(_, _, _)
MulSmall(bits, c, carry) ==
    IF bits = <<>> THEN NatBits(carry)
    ELSE Append(MulSmall(SubSeq(bits, 1, Len(bits) - 1), c,
                         (bits[Len(bits)] * c + carry) \div 2),
                (bits[Len(bits)] * c + carry) % 2)

\* x * c in double arithmetic, for a small natural c >= 2
FloatMul(x, c) ==
    IF x = Zero THEN Zero
    ELSE RoundNearestEven(MulSmall(x.m, c, 0), FALSE,
                          x.e + Len(MulSmall(x.m, c, 0)) - Precision)

\* the whole part of a double below 2^Precision
IntPart(x) == IF x = Zero \/ x.e < 0 THEN 0 ELSE BitsVal(SubSeq(x.m, 1, x.e + 1), 0)

HasFraction(x) == x # Zero /\ \E i \in 1..Precision : i > x.e + 1 /\ x.m[i] = 1

\* x > n for a double x and a natural n (a threshold read by float())
Exceeds(x, n) == IntPart(x) > n \/ (IntPart(x) = n /\ HasFraction(x))

\* (error_count / total_count) * 100 for every count a window can give,
\* worked out once
Percent ==
    [total_count \in 1..LargeWindow |->
        [error_count \in 0..total_count |->
            FloatMul(FloatDiv(error_count, total_count), 100)]]

\* line 194: the rate as the code holds it (value), with the counts it was
\* computed from (num / den is the exact rate)
ErrorRate(error_count, total_count) ==
    [num |-> error_count * 100, den |-> total_count,
     value |-> Percent[total_count][error_count]]

\* rate <= threshold
RateAtMost(rate, threshold) == ~Exceeds(rate.value, threshold)

ErrorRateReadsClock(self) ==
    /\ Len(self.request_window) >= MinSamples
    /\ ~RateAtMost(ErrorRate(CountTrue(self.request_window),
                             Len(self.request_window)),
                   error_rate_threshold)

\* lines 196-222, with the counts of lines 192-193
RateChecked(self, error_count, total_count, current_time, transport) ==
    IF RateAtMost(ErrorRate(error_count, total_count), error_rate_threshold)
    THEN [self EXCEPT !.last_rate = ErrorRate(error_count, total_count)]
    ELSE IF current_time - self.last_error_rate_alert < alert_cooldown
    THEN [self EXCEPT !.last_rate = ErrorRate(error_count, total_count),
                      !.now = current_time]
    ELSE Alerted(send_slack_alert(
                     [self EXCEPT !.last_rate = ErrorRate(error_count, total_count),
                                  !.now = current_time],
                     [type |-> "error_rate", at |-> current_time,
                      errors |-> error_count, total |-> total_count,
                      pool |-> self.last_pool],
                     transport),
                 "error_rate", current_time)

\* Faulty variant (C5): the rate is taken over the capacity, not the length.
check_error_rate_OverCapacity(self, current_time, transport) ==
    IF Len(self.request_window) < MinSamples THEN self
    ELSE RateChecked(self, CountTrue(self.request_window),
                     window_size, current_time, transport)

\* Faulty variant (C18): one cooldown for both detectors, measured from the
\* later of the two alerts.
check_error_rate_SharedCooldown(self, current_time, transport) ==
    IF Len(self.request_window) < MinSamples THEN self
    ELSE IF current_time - self.last_failover_alert < alert_cooldown
            /\ self.last_failover_alert # NeverAlerted
    THEN [self EXCEPT !.last_rate = ErrorRate(CountTrue(self.request_window),
                                             Len(self.request_window))]
    ELSE RateChecked(self, CountTrue(self.request_window),
                     Len(self.request_window), current_time, transport)

check_error_rate(self, current_time, transport) ==
    IF Len(self.request_window) < MinSamples THEN self
    ELSE RateChecked(self, CountTrue(self.request_window),
                     Len(self.request_window), current_time, transport)

\* ------------------------------------------------------------ parse_log_line
\* A line is its text's JSON reading: valid is FALSE when json.loads raises
\* JSONDecodeError; value is the parsed value otherwise.
NoJson == [json |-> "none", truthy |-> FALSE]

\* Faulty variant (C7): a line that is no JSON is wrapped into an empty record.
parse_log_line_Wrapping(line) ==
    IF line.valid THEN line.value
    ELSE [json |-> "object", truthy |-> TRUE, pool |-> Absent,
          upstream_addr |-> Absent, status |-> Absent, upstream_status |-> Absent]

parse_log_line(line) == IF line.valid THEN line.value ELSE NoJson

\* ------------------------------------------------------------- the stream
a_two_tried == <<"1","0",".","0",".","0",".","5",":","8","0","8","2",","," ","1","0",".","0",".","0",".","2",":","8","0","8","1">>
a_green_name == <<"m","y","-","g","r","e","e","n","-","s","e","r","v","i","c","e",":","4","0","0","0">>
a_unknown == <<"1","0",".","0",".","0",".","9",":","3","0","0","0">>

Object(pool, upstream_addr, status, upstream_status) ==
    [valid |-> TRUE,
     value |-> [json |-> "object", truthy |-> TRUE, pool |-> pool,
                upstream_addr |-> upstream_addr, status |-> status,
                upstream_status |-> upstream_status]]

\* not JSON at all
BadLine == [valid |-> FALSE]
\* JSON null, false, 0, "", [] or {}
EmptyLine == [valid |-> TRUE, value |-> [json |-> "other", truthy |-> FALSE]]
\* a JSON array, text, number or true: truthy and not an object
ArrayLine == [valid |-> TRUE, value |-> [json |-> "other", truthy |-> TRUE]]

\* One record of each kind the handler tells apart: pool blue, green or
\* undetermined; served, failed, or with a status int() rejects.
ObjectLines ==
    { Object(StrV(s_blue), Absent, IntV(200), StrV(<<"2","0","0">>)),
      Object(StrV(<<"-">>), StrV(a_green_name), Absent, StrV(<<"2","0","0">>)),
      Object(Absent, StrV(a_two_tried), IntV(503), Absent),
      Object(StrV(s_green), Absent, IntV(200), StrV(<<"5","0","2",","," ","2","0","0">>)),
      Object(StrV(<<>>), StrV(a_unknown), StrV(<<"5","0","3">>), NoneV),
      Object(Absent, Absent, Absent, Absent),
      Object(StrV(s_green), Absent, StrV(<<"a","b","c">>), Absent) }

Lines == {BadLine, EmptyLine, ArrayLine} \cup ObjectLines

\* Addresses that tell the rules of detect_pool_from_upstream apart: upper
\* case, a name with a port of the other pool, several upstreams tried, both
\* ports, a port with a configured address of the other pool, configured
\* addresses alone, empty pieces, no piece at all.
a_name_both == <<"G","R","E","E","N","-","b","l","u","e">>
a_upper_green == <<"G","R","E","E","N",":","4","0","0","0">>
a_green_8081 == <<"g","r","e","e","n",":","8","0","8","1">>
a_port_last == <<"x",":","8","0","8","2",","," ","y",":","8","0","8","1">>
a_both_ports == <<"1","8","0","8","2",":","8","0","8","1">>
a_port_over_ip == <<"1","7","2",".","1","8",".","0",".","3",":","8","0","8","1">>
a_port_over_blue_ip == <<"1","7","2",".","1","8",".","0",".","2",":","8","0","8","2">>
a_blue_ip == <<"1","7","2",".","1","8",".","0",".","2",":","3","0","0","0">>
a_green_ip == <<"1","7","2",".","1","8",".","0",".","3",":","3","0","0","0">>
a_both_ips == <<"1","7","2",".","1","8",".","0",".","3","/","1","7","2",".","1","8",".","0",".","2">>
a_blue_not_last == <<"b","l","u","e",":","1",","," ","1","0",".","0",".","0",".","9",":","3","0","0","0">>
a_trailing_empties == <<"1","0",".","0",".","0",".","9",":","3","0","0","0",","," ","g","r","e","e","n"," ",","," "," ",",">>
a_comma == <<",">>
a_blank == <<" ">>

Addresses ==
    { StrV(a_name_both), StrV(a_upper_green), StrV(a_green_8081), StrV(a_port_last),
      StrV(a_both_ports), StrV(a_port_over_ip), StrV(a_port_over_blue_ip),
      StrV(a_blue_ip), StrV(a_green_ip), StrV(a_both_ips),
      StrV(a_blue_not_last), StrV(a_trailing_empties), StrV(a_comma),
      StrV(a_blank), StrV(a_two_tried), StrV(a_green_name), StrV(a_unknown),
      StrV(<<>>), NoneV, Absent, IntV(8081), IntV(0) }

\* records that leave the pool to detect_pool_from_upstream
DetectLines ==
    {Object(pool, upstream_addr, IntV(200), Absent) :
        pool \in {Absent, StrV(<<"-">>)}, upstream_addr \in Addresses}

\* records of the default pool only, served or failed
SteadyLines ==
    { Object(StrV(s_blue), Absent, IntV(200), StrV(<<"2","0","0">>)),
      Object(Absent, StrV(a_two_tried), IntV(503), Absent) }

\* ------------------------------------------------------- process_log_entry
\* dict.get(key, default) on a field that may be absent from the object
Get(field, default) == IF field.t = "absent" THEN default ELSE field

\* Faulty variant (C4): a full window refuses the new entry.
DequeAppend_KeepOldest(window, x) ==
    IF window_size = 0 THEN <<>>
    ELSE IF Len(window) >= window_size THEN window
    ELSE Append(window, x)

\* deque(maxlen = window_size).append(x)
DequeAppend(window, x) ==
    IF window_size = 0 THEN <<>>
    ELSE IF Len(window) >= window_size THEN Append(Tail(window), x)
    ELSE Append(window, x)

\* lines 240-243: the record's own pool field, else the pool of its upstream
EntryPool(log_entry) ==
    LET pool == Get(log_entry.pool, NoneV) IN
    IF ~Truthy(pool) \/ pool.v = <<"-">> \/ pool.v = <<>>
    THEN detect_pool_from_upstream(Get(log_entry.upstream_addr, StrV(<<>>)))
    ELSE pool

\* line 258: int(status) is evaluated, and raises
StatusRaises(status) == Truthy(status) /\ IntRaises(status)

\* lines 257-261
IsError(status, upstream_status) ==
    IF Truthy(status) /\ IntOf(status) >= 500 THEN TRUE
    ELSE Truthy(upstream_status) /\ StartsWith(StrOf(upstream_status), <<"5">>)

\* What lines 240-261 compute from a record, worked out once per record of
\* the stream: its pool, whether int(status) raises, its error verdict.
Entries == {parse_log_line(line) : line \in ObjectLines \cup DetectLines}

Reading ==
    [log_entry \in Entries |->
        LET status == Get(log_entry.status, NoneV)
        IN  [pool |-> EntryPool(log_entry),
             raises |-> StatusRaises(status),
             is_error |-> IF StatusRaises(status) THEN FALSE
                          ELSE IsError(status, Get(log_entry.upstream_status, NoneV))]]

PoolText(pool) == IF Truthy(pool) THEN pool.v ELSE <<>>

\* lines 237-254
TrackPool(self, log_entry, current_time, transport) ==
    IF Truthy(Reading[log_entry].pool)
    THEN check_failover([self EXCEPT !.log_count = @ + 1],
                        Reading[log_entry].pool.v, current_time, transport)
    ELSE [self EXCEPT !.log_count = @ + 1]

\* line 266
Push(self, is_error) ==
    [self EXCEPT !.request_window = DequeAppend(@, is_error),
                 !.pushed = Append(@, is_error)]

\* Faulty variant (C20): the minimum sample count is capped by the capacity.
Evaluated_CappedByCapacity(appended, t2, tr2) ==
    IF Len(appended.request_window) >=
           (IF window_size < MinSamples THEN window_size ELSE MinSamples)
    THEN RateChecked(appended, CountTrue(appended.request_window),
                     Len(appended.request_window), t2, tr2)
    ELSE appended

\* lines 268-270
Evaluated(appended, t2, tr2) ==
    IF Len(appended.request_window) >= MinSamples
    THEN check_error_rate(appended, t2, tr2)
    ELSE appended

\* Faulty variant (C17): a record whose pool is undetermined is skipped whole.
Classified_SkipUnknown(tracked, log_entry, t2, tr2) ==
    IF tracked.raised THEN tracked
    ELSE IF ~Truthy(Reading[log_entry].pool) THEN tracked
    ELSE IF Reading[log_entry].raises THEN [tracked EXCEPT !.raised = TRUE]
    ELSE Evaluated(Push(tracked, Reading[log_entry].is_error), t2, tr2)

\* Faulty variant (C16): the rate is evaluated before the record's outcome
\* is pushed.
Classified_EvaluateFirst(tracked, log_entry, t2, tr2) ==
    IF tracked.raised THEN tracked
    ELSE IF Reading[log_entry].raises THEN [tracked EXCEPT !.raised = TRUE]
    ELSE Push(Evaluated(tracked, t2, tr2), Reading[log_entry].is_error)

\* lines 256-270, after the pool was tracked
Classified(tracked, log_entry, t2, tr2) ==
    IF tracked.raised THEN tracked
    ELSE IF Reading[log_entry].raises THEN [tracked EXCEPT !.raised = TRUE]
    ELSE Evaluated(Push(tracked, Reading[log_entry].is_error), t2, tr2)

\* log_entry is the parsed JSON value; t1, tr1 are the clock reading and the
\* transport outcome met by check_failover, t2, tr2 those met by
\* check_error_rate
process_log_entry(self, log_entry, t1, tr1, t2, tr2) ==
    IF ~log_entry.truthy THEN self
    ELSE IF log_entry.json # "object"
    THEN [self EXCEPT !.log_count = @ + 1, !.raised = TRUE]
    ELSE Classified(TrackPool(self, log_entry, t1, tr1), log_entry, t2, tr2)

\* -------------------------------------------------------------------- Init
Thresholds == {2, 5}
Cooldowns == 1..MaxCooldown
Times == 0..MaxTime

Constructed ==
    /\ last_pool = active_pool
    /\ request_window = <<>>
    /\ last_failover_alert = NeverAlerted
    /\ last_error_rate_alert = NeverAlerted
    /\ log_count = 0
    /\ pc = "main"
    /\ now \in Times
    /\ calls = <<>>
    /\ posts = 0
    /\ last_send = NoSend
    /\ pushed = <<>>
    /\ last_rate = [num |-> 0, den |-> 0, value |-> Zero]
    /\ last_read = [line |-> "none", pool |-> <<>>, raises |-> FALSE,
                    entry |-> NoJson, held |-> <<>>, alerts |-> <<>>]

\* The records the handler processes to the end
WellFormed == {line \in ObjectLines : ~Reading[line.value].raises}

\* Every configuration, every kind of line, a window below the minimum sample count, short streams
Init ==
    /\ slack_webhook \in BOOLEAN
    /\ active_pool \in Pools
    /\ error_rate_threshold \in Thresholds
    /\ window_size = SmallWindow
    /\ alert_cooldown \in Cooldowns
    /\ maintenance_mode \in BOOLEAN
    /\ stream_len = ShortStream
    /\ stream_errors = MaxErrors
    /\ source = Lines
    /\ Constructed

\* The default pool and a reachable endpoint, well-formed records, a window
\* above the minimum sample count, streams long enough to overflow it
InitRate ==
    /\ slack_webhook = TRUE
    /\ active_pool = s_blue
    /\ error_rate_threshold \in Thresholds
    /\ window_size = LargeWindow
    /\ alert_cooldown = MaxCooldown
    /\ maintenance_mode = FALSE
    /\ stream_len = MinSamples + Overflow
    /\ stream_errors = MaxErrors
    /\ source = WellFormed
    /\ Constructed

\* The default pool only, a reachable endpoint, a window above the minimum
\* sample count, streams long enough to overflow it
InitSteady ==
    /\ slack_webhook = TRUE
    /\ active_pool = s_blue
    /\ error_rate_threshold \in Thresholds
    /\ window_size = LargeWindow
    /\ alert_cooldown \in Cooldowns
    /\ maintenance_mode = FALSE
    /\ stream_len = MinSamples + Overflow
    /\ stream_errors = MaxErrors
    /\ source = SteadyLines
    /\ Constructed

\* Short streams of records that leave the pool to detect_pool_from_upstream
InitDetect ==
    /\ slack_webhook = TRUE
    /\ active_pool \in Pools
    /\ error_rate_threshold = 2
    /\ window_size = SmallWindow
    /\ alert_cooldown \in Cooldowns
    /\ maintenance_mode = FALSE
    /\ stream_len = DetectStream
    /\ stream_errors = MaxErrors
    /\ source = DetectLines
    /\ Constructed

\* The windows one record short of the minimum sample count that a stream
\* of the active pool leaves, by the failed requests among its records: no
\* detector has read the clock or alerted yet.
Bursts == {0, 1, 10, 11, MinSamples - 1}

Burst(n, k) == [i \in 1..n |-> i <= k]

\* thresholds of the detector runs: with 55, 11 failed requests in 20 are a
\* rate equal to the threshold
DetectorThresholds == Thresholds \cup {55}

\* The watcher after MinSamples - 1 records of the active pool, in every
\* notifier configuration; the stream goes on for a few records
InitDetectors ==
    /\ slack_webhook \in BOOLEAN
    /\ active_pool = s_blue
    /\ error_rate_threshold \in DetectorThresholds
    /\ window_size = LargeWindow
    /\ alert_cooldown \in Cooldowns
    /\ maintenance_mode \in BOOLEAN
    /\ stream_len = MinSamples + 1
    /\ source = SteadyLines
    /\ last_pool = active_pool
    /\ \E k \in Bursts :
           /\ request_window = Burst(MinSamples - 1, k)
           /\ stream_errors = k + MaxErrors
    /\ pushed = request_window
    /\ log_count = MinSamples - 1
    /\ last_failover_alert = NeverAlerted
    /\ last_error_rate_alert = NeverAlerted
    /\ pc = "tail"
    /\ now \in Times
    /\ calls = <<[type |-> "info", pool |-> active_pool]>>
    /\ posts = IF Attempts("info") THEN 1 ELSE 0
    /\ last_send = [type |-> "info", attempted |-> Attempts("info"),
                    result |-> Attempts("info")]
    /\ last_rate = [num |-> 0, den |-> 0, value |-> Zero]
    /\ last_read = [line |-> "object", pool |-> active_pool, raises |-> FALSE,
                    entry |-> parse_log_line(
                                 Object(StrV(s_blue), Absent, IntV(200),
                                        StrV(<<"2","0","0">>))),
                    held |-> <<>>, alerts |-> <<>>]

\* ----------------------------------------------------------------- actions
\* the types of the alerts a step adds to the call history, in order
Added(before, after) ==
    [i \in 1..(Len(after) - Len(before)) |-> after[Len(before) + i].type]

Commit(self) ==
    /\ last_pool' = self.last_pool
    /\ request_window' = self.request_window
    /\ last_failover_alert' = self.last_failover_alert
    /\ last_error_rate_alert' = self.last_error_rate_alert
    /\ log_count' = self.log_count
    /\ now' = self.now
    /\ calls' = self.calls
    /\ posts' = self.posts
    /\ last_send' = self.last_send
    /\ pushed' = self.pushed
    /\ last_rate' = self.last_rate

\* main, lines 307-313: construct the watcher, send the startup notification
Startup ==
    /\ pc = "main"
    /\ \E transport \in (IF Attempts("info") THEN Transports ELSE {"200"}) :
         LET sent == send_slack_alert(Self, [type |-> "info", pool |-> active_pool],
                                      transport)
         IN  /\ Commit(sent)
             /\ pc' = IF sent.raised THEN "exit1" ELSE "wait"
    /\ UNCHANGED <<config, last_read>>

\* tail_logs_subprocess, lines 277-279: the log file does not exist yet
WaitForLog ==
    /\ pc = "wait"
    /\ UNCHANGED vars

\* tail_logs_subprocess, lines 281-292: the log file exists, tail -F starts
StartTail ==
    /\ pc = "wait"
    /\ pc' = "tail"
    /\ UNCHANGED <<config, last_pool, request_window, last_failover_alert,
                   last_error_rate_alert, log_count, now, calls, posts,
                   last_send, pushed, last_rate, last_read>>

\* tail_logs_subprocess, lines 295-299, with main's handler for an exception
\* that leaves the loop (lines 320-324): one line of the stream.  t1 and tr1
\* are drawn only when check_failover reads the clock and reaches
\* requests.post, t2 and tr2 only when check_error_rate does.  (A value bound
\* by \E over a one-element set is worked out once.)
ReadLine(line) ==
    /\ pc = "tail"
    /\ line \in source
    /\ log_count < stream_len
    /\ \E self \in {Self}, log_entry \in {parse_log_line(line)} :
       \E object \in {log_entry.truthy /\ log_entry.json = "object"} :
       \E reads1 \in {object /\ FailoverReadsClock(self,
                                   PoolText(Reading[log_entry].pool))} :
       \E t1 \in (IF reads1 THEN now..MaxTime ELSE {now}) :
       \E tr1 \in (IF reads1 /\ t1 - last_failover_alert >= alert_cooldown
                       /\ Attempts("failover")
                   THEN Transports ELSE {"200"}) :
       \E tracked \in {IF object THEN TrackPool(self, log_entry, t1, tr1)
                       ELSE self} :
       \E reads2 \in {/\ object
                      /\ ~tracked.raised
                      /\ ~Reading[log_entry].raises
                      /\ ErrorRateReadsClock(
                             Push(tracked, Reading[log_entry].is_error))} :
       \E t2 \in (IF reads2 THEN tracked.now..MaxTime ELSE {tracked.now}) :
       \E tr2 \in (IF reads2 /\ t2 - last_error_rate_alert >= alert_cooldown
                       /\ Attempts("error_rate")
                   THEN Transports ELSE {"200"}) :
       \E done \in {IF log_entry.truthy
                    THEN process_log_entry(self, log_entry, t1, tr1, t2, tr2)
                    ELSE self} :
           /\ CountTrue(done.pushed) <= stream_errors
           /\ Commit(done)
           /\ pc' = IF done.raised THEN "exit1" ELSE "tail"
           /\ last_read' =
                  [line |-> IF ~line.valid THEN "invalid"
                            ELSE IF ~log_entry.truthy THEN "empty"
                            ELSE log_entry.json,
                   pool |-> IF object THEN PoolText(Reading[log_entry].pool)
                            ELSE <<>>,
                   raises |-> IF object THEN Reading[log_entry].raises
                              ELSE log_entry.truthy,
                   entry |-> log_entry,
                   held |-> IF /\ object
                               /\ FailoverReadsClock(self,
                                      PoolText(Reading[log_entry].pool))
                               /\ done.last_pool = last_pool
                            THEN PoolText(Reading[log_entry].pool)
                            ELSE IF done.last_failover_alert # last_failover_alert
                            THEN last_read.held
                            ELSE <<>>,
                   alerts |-> Added(calls, done.calls)]
    /\ UNCHANGED config

Next ==
    \/ Startup
    \/ WaitForLog
    \/ StartTail
    \/ \E line \in source : ReadLine(line)

Spec == Init /\ [][Next]_vars

SpecRate == InitRate /\ [][Next]_vars

SpecSteady == InitSteady /\ [][Next]_vars

SpecDetect == InitDetect /\ [][Next]_vars

\* --------------------------------------------- the detectors on their own
\* check_failover called with a pool, or with no pool
CheckFailover(pool, current_time, transport) ==
    /\ pc = "tail"
    /\ Len(calls) < MaxCalls
    /\ Commit(check_failover(Self, pool, current_time, transport))
    /\ last_read' = [line |-> "check_failover", pool |-> pool, raises |-> FALSE,
                     entry |-> NoJson, held |-> <<>>,
                     alerts |-> Added(calls, calls')]
    /\ UNCHANGED <<config, pc>>

\* check_error_rate called on the window as it is
CheckErrorRate(current_time, transport) ==
    /\ pc = "tail"
    /\ Len(calls) < MaxCalls
    /\ Commit(check_error_rate(Self, current_time, transport))
    /\ last_read' = [line |-> "check_error_rate", pool |-> <<>>, raises |-> FALSE,
                     entry |-> NoJson, held |-> <<>>,
                     alerts |-> Added(calls, calls')]
    /\ UNCHANGED <<config, pc>>

NextDetectors ==
    \/ \E line \in source : ReadLine(line)
    \/ \E pool \in Pools \cup {<<>>} :
       \E reads \in {FailoverReadsClock(Self, pool)} :
       \E current_time \in (IF reads THEN now..MaxTime ELSE {now}) :
       \E transport \in (IF reads /\ current_time - last_failover_alert >= alert_cooldown
                             /\ Attempts("failover")
                          THEN Transports ELSE {"200"}) :
           CheckFailover(pool, current_time, transport)
    \/ \E reads \in {ErrorRateReadsClock(Self)} :
       \E current_time \in (IF reads THEN now..MaxTime ELSE {now}) :
       \E transport \in (IF reads /\ current_time - last_error_rate_alert >= alert_cooldown
                             /\ Attempts("error_rate")
                          THEN Transports ELSE {"200"}) :
           CheckErrorRate(current_time, transport)

SpecDetectors == InitDetectors /\ [][NextDetectors]_vars

\* ------------------------------------------------- the notifier on its own
\* send_slack_alert called with any alert type its emoji_map knows
AlertTypes == {"failover", "error_rate", "recovery", "critical", "info"}

InitNotify ==
    /\ slack_webhook \in BOOLEAN
    /\ active_pool = s_blue
    /\ error_rate_threshold = 2
    /\ window_size = SmallWindow
    /\ alert_cooldown = MaxCooldown
    /\ maintenance_mode \in BOOLEAN
    /\ stream_len = 0
    /\ stream_errors = 0
    /\ source = {}
    /\ Constructed

Notify(alert_type, transport) ==
    /\ Len(calls) < MaxCalls
    /\ Commit(send_slack_alert(Self, [type |-> alert_type, pool |-> last_pool],
                               transport))
    /\ UNCHANGED <<config, pc, last_read>>

NextNotify ==
    \E alert_type \in AlertTypes :
        \E transport \in (IF Attempts(alert_type) THEN Transports ELSE {"200"}) :
            Notify(alert_type, transport)

SpecNotify == InitNotify /\ [][NextNotify]_vars

\* ------------------------------------------------------------ the claims
\* What the formulas say of the histories, counted apart from the program's
\* own arithmetic.
Min(a, b) == IF a <= b THEN a ELSE b

LastN(seq, n) == SubSeq(seq, Len(seq) - n + 1, Len(seq))

RECURSIVE Trues(_)
Trues(seq) == IF seq = <<>> THEN 0 ELSE (IF Head(seq) THEN 1 ELSE 0) + Trues(Tail(seq))

CallsOf(alert_type) == {i \in DOMAIN calls : calls[i].type = alert_type}

\* the send_slack_alert calls a step adds to the history
NewCalls == {i \in DOMAIN calls' : i > Len(calls)}

NewCallsOf(alert_type) == {i \in NewCalls : calls'[i].type = alert_type}

\* a step that handles a record (an object line), whether or not to the end
HandlesRecord == pc = "tail" /\ log_count' = log_count + 1 /\ last_read'.line = "object"

\* C1: under the non-decreasing clock of the model, any two failover alerts,
\* and any two error-rate alerts, are at least alert_cooldown apart.
C1_CooldownBetweenAlerts ==
    \A i, j \in DOMAIN calls :
        (/\ i < j
         /\ calls[i].type \in {"failover", "error_rate"}
         /\ calls[i].type = calls[j].type)
        => calls[j].at - calls[i].at >= alert_cooldown

C1_Witness ==
    /\ Cardinality(CallsOf("failover")) >= 2
    /\ Cardinality(CallsOf("error_rate")) >= 2

\* C2: a record whose pool differs from last_pool, observed within the
\* cooldown, raises no failover alert and leaves last_pool and
\* last_failover_alert alone; the two are assigned only by a step that raises
\* a failover alert, to that alert's target and time; so last_pool is the
\* configured active pool until the first failover alert and the target of
\* the latest one afterwards.
LastPoolTracksAlerts ==
    IF CallsOf("failover") = {}
    THEN last_pool = active_pool /\ last_failover_alert = NeverAlerted
    ELSE LET latest == CHOOSE i \in CallsOf("failover") :
                           \A j \in CallsOf("failover") : j <= i
         IN  /\ last_pool = calls[latest].pool
             /\ last_failover_alert = calls[latest].at

C2_Step ==
    /\ (/\ HandlesRecord
        /\ last_read'.pool # <<>>
        /\ last_read'.pool # last_pool
        /\ now' - last_failover_alert < alert_cooldown)
       => /\ NewCallsOf("failover") = {}
          /\ last_pool' = last_pool
          /\ last_failover_alert' = last_failover_alert
    /\ (last_pool' # last_pool \/ last_failover_alert' # last_failover_alert)
       => \E i \in NewCallsOf("failover") :
              /\ NewCallsOf("failover") = {i}
              /\ calls'[i].old_pool = last_pool
              /\ last_pool' = calls'[i].pool
              /\ last_failover_alert' = calls'[i].at
    /\ LastPoolTracksAlerts'

C2_SuppressedLeavesPool == LastPoolTracksAlerts /\ [][C2_Step]_vars

\* a pool change observed inside the cooldown that follows a failover alert
C2_Witness ==
    /\ pc = "tail"
    /\ last_read.line = "object"
    /\ last_read.pool \in Pools
    /\ last_read.pool # last_pool
    /\ CallsOf("failover") # {}
    /\ now > last_failover_alert
    /\ now - last_failover_alert < alert_cooldown

\* C3: while no failover alert has been raised, a record of a known pool
\* other than the configured active pool raises a failover alert and moves
\* last_pool to that pool, whatever the clock reads.
C3_Step ==
    (/\ HandlesRecord
     /\ CallsOf("failover") = {}
     /\ last_read'.pool \in Pools
     /\ last_read'.pool # active_pool)
    => /\ NewCallsOf("failover") # {}
       /\ last_pool' = last_read'.pool

C3_NoStartupGrace == [][C3_Step]_vars

\* C4: the window never holds more than window_size entries, and holds the
\* latest min(pushes, window_size) outcomes pushed, in the order pushed.
C4_WindowIsRecentPushes ==
    /\ Len(request_window) <= window_size
    /\ request_window = LastN(pushed, Min(Len(pushed), window_size))

\* an error was pushed and has been evicted
C4_Witness ==
    /\ Len(pushed) > window_size
    /\ Trues(pushed) > 0
    /\ Trues(request_window) = 0

\* C5: whenever check_error_rate runs, the rate it computes is 100 * (the
\* true entries among the latest min(pushes, capacity) pushes) / min(pushes,
\* capacity), and the error count it reports is the number of true entries
\* in the window.
C5_Step ==
    (/\ HandlesRecord
     /\ pushed' # pushed
     /\ Len(request_window') >= MinSamples)
    => LET n == Min(Len(pushed'), window_size) IN
       /\ last_rate'.num = 100 * Trues(LastN(pushed', n))
       /\ last_rate'.den = n
       /\ \A i \in NewCallsOf("error_rate") :
              /\ calls'[i].errors = Trues(request_window')
              /\ calls'[i].total = Len(request_window')

C6_NoLineEndsLoop == last_read.line # "none" => pc = "tail"

\* C7: a line json.loads rejects is dropped: the window, last_pool, both
\* cooldown timestamps and the processed-record count stay as they were, no
\* alert is sent, and the loop goes on.
C7_Step ==
    (pc = "tail" /\ last_read'.line = "invalid")
    => /\ UNCHANGED <<request_window, pushed, last_pool, last_failover_alert,
                      last_error_rate_alert, log_count, calls, posts>>
       /\ pc' = "tail"

C7_UnparsableLineDropped == [][C7_Step]_vars

\* an unparsable line read after records were processed and an alert raised
C7_Witness ==
    /\ last_read.line = "invalid"
    /\ log_count > 0
    /\ request_window # <<>>
    /\ CallsOf("failover") # {}

\* C8 as stated: in maintenance mode a call reaches requests.post exactly
\* when its alert type is "critical".
C8_CriticalAlwaysAttempted ==
    (maintenance_mode /\ last_send.type # "none")
    => (last_send.attempted <=> last_send.type = "critical")

\* C8, amended: in maintenance mode no call of another type than "critical"
\* reaches requests.post, and a "critical" call reaches it exactly when a
\* webhook is configured.
C8_MaintenanceSuppression ==
    maintenance_mode
    => /\ last_send.type # "none"
          => (last_send.attempted <=> (last_send.type = "critical" /\ slack_webhook))
       /\ posts = IF slack_webhook THEN Cardinality(CallsOf("critical")) ELSE 0

\* in maintenance mode a critical alert was posted and another alert was not
C8_Witness ==
    /\ maintenance_mode
    /\ slack_webhook
    /\ posts = 1
    /\ CallsOf("critical") # {}
    /\ last_send.type \in {"failover", "error_rate", "recovery", "info"}
    /\ ~last_send.attempted

\* C9 as stated: once main has sent the startup notification and before any
\* line is read, exactly one call, of type "info" and naming the active pool,
\* has been made, and with a webhook configured it was posted, maintenance
\* mode or not.
C9_StartupAlwaysPosted ==
    pc = "wait"
    => /\ Len(calls) = 1
       /\ calls[1].type = "info"
       /\ calls[1].pool = active_pool
       /\ slack_webhook => posts = 1

\* C9, amended: before any line is read main makes exactly one call of type
\* "info" naming the active pool, the only "info" call of the run; it passes
\* the same checks as any alert: it is posted exactly when a webhook is
\* configured and maintenance mode is off.
C9_StartupNotification ==
    /\ pc = "main" => calls = <<>> /\ log_count = 0 /\ last_read.line = "none"
    /\ pc # "main" => CallsOf("info") = {1} /\ calls[1].pool = active_pool
    /\ pc = "wait"
       => /\ Len(calls) = 1
          /\ log_count = 0
          /\ last_read.line = "none"
          /\ last_send.type = "info"
          /\ last_send.attempted = (slack_webhook /\ ~maintenance_mode)
          /\ posts = IF slack_webhook /\ ~maintenance_mode THEN 1 ELSE 0

\* the startup notification suppressed by maintenance mode
C9_Witness ==
    /\ pc = "wait"
    /\ slack_webhook
    /\ maintenance_mode
    /\ Len(calls) = 1
    /\ posts = 0

\* C10: a step posts at most once per alert it raises and raises at most one
\* alert per detector; a call that cannot post (no webhook, maintenance mode)
\* only returns False; and whatever the notifier does, a step that handles a
\* line which does not itself raise leaves the loop running.
C10_Step ==
    /\ posts' - posts <= Cardinality(NewCalls)
    /\ posts' >= posts
    /\ Cardinality(NewCallsOf("failover")) <= 1
    /\ Cardinality(NewCallsOf("error_rate")) <= 1
    /\ (NewCalls # {} /\ ~Attempts(last_send'.type))
       => ~last_send'.result /\ posts' = posts
    /\ (NewCalls # {} /\ ~last_read'.raises) => pc' \in {"wait", "tail"}

C10_NotifierFailureContained == [][C10_Step]_vars

\* a failover alert whose post failed, and a later record that read the clock
C10_Witness ==
    /\ pc = "tail"
    /\ last_send.type = "failover"
    /\ last_send.attempted
    /\ ~last_send.result
    /\ last_read.line = "object"
    /\ now > calls[Len(calls)].at

\* C11: every record of the stream is of the configured active pool, so no
\* failover alert is dispatched; and with threshold 2, once 19 non-errors and
\* then an error have been pushed, the 20th record has raised an error-rate
\* alert (1 error in 20), which is the only one for as long as the clock
\* stays within the cooldown of it.
C11_EndToEnd ==
    /\ CallsOf("failover") = {}
    /\ (/\ error_rate_threshold = 2
        /\ Len(pushed) >= MinSamples
        /\ \A i \in 1..(MinSamples - 1) : ~pushed[i]
        /\ pushed[MinSamples])
       => /\ CallsOf("error_rate") # {}
          /\ \A i \in CallsOf("error_rate") :
                 (\A j \in CallsOf("error_rate") : i <= j)
                 => /\ calls[i].total = MinSamples
                    /\ now - calls[i].at < alert_cooldown
                       => CallsOf("error_rate") = {i}

\* What C12 says of an address, written from the claim's words on the
\* positions of the text.
LowerCased(s) ==
    [i \in 1..Len(s) |->
        IF s[i] \in {"B","L","U","E","G","R","N"}
        THEN [c \in {"B","L","U","E","G","R","N"} |->
                 CASE c = "B" -> "b" [] c = "L" -> "l" [] c = "U" -> "u"
                   [] c = "E" -> "e" [] c = "G" -> "g" [] c = "R" -> "r"
                   [] c = "N" -> "n"][s[i]]
        ELSE s[i]]

\* the positions that are neither a comma nor a blank
Solid(s) == {k \in 1..Len(s) : s[k] # "," /\ s[k] # " "}

\* the last non-empty comma-separated token, trimmed; empty when there is none
LastToken(s) ==
    IF Solid(s) = {} THEN <<>>
    ELSE LET hi == CHOOSE k \in Solid(s) : \A j \in Solid(s) : j <= k
             lo == CHOOSE k \in Solid(s) :
                       /\ k <= hi
                       /\ \A j \in k..hi : s[j] # ","
                       /\ \A j \in Solid(s) :
                              (j <= hi /\ \A i \in j..hi : s[i] # ",") => k <= j
         IN  SubSeq(s, lo, hi)

Has(token, part) ==
    \E i \in 1..(Len(token) - Len(part) + 1) :
        SubSeq(token, i, i + Len(part) - 1) = part

\* the pool's name, or the empty text for undetected
Classified_C12(address) ==
    IF address.t \in {"absent", "none"} \/ (address.t = "str" /\ address.v = <<>>)
       \/ (address.t = "int" /\ address.v = 0)
    THEN <<>>
    ELSE LET token == LastToken(LowerCased(StrOf(address))) IN
         CASE Has(token, <<"b","l","u","e">>) -> <<"b","l","u","e">>
           [] ~Has(token, <<"b","l","u","e">>) /\ Has(token, <<"g","r","e","e","n">>)
                -> <<"g","r","e","e","n">>
           [] OTHER ->
              CASE Has(token, <<"8","0","8","1">>) -> <<"b","l","u","e">>
                [] ~Has(token, <<"8","0","8","1">>) /\ Has(token, <<"8","0","8","2">>)
                     -> <<"g","r","e","e","n">>
                [] OTHER ->
                   IF token # <<>> /\ \E i \in DOMAIN BLUE_IPS : Has(token, BLUE_IPS[i])
                   THEN <<"b","l","u","e">>
                   ELSE IF token # <<>> /\ \E i \in DOMAIN GREEN_IPS : Has(token, GREEN_IPS[i])
                   THEN <<"g","r","e","e","n">>
                   ELSE <<>>

\* that pool for every address explored, worked out once
Expected_C12 == [address \in Addresses |-> Classified_C12(address)]

\* C12: a record that leaves its pool to detect_pool_from_upstream gets the
\* pool the last non-empty comma-separated token of the lower-cased address
\* names, by name, then port, then configured address, blue before green;
\* none for an empty or absent address; and the step raises nothing.
C12_Step ==
    (/\ HandlesRecord
     /\ last_read'.entry.pool \in {Absent, NoneV, StrV(<<>>), StrV(<<"-">>)})
    => /\ last_read'.pool = Expected_C12[last_read'.entry.upstream_addr]
       /\ pc' = "tail"

C12_LastTokenPrecedence == [][C12_Step]_vars

\* an address whose first token names blue and whose last names no pool
C12_Witness ==
    /\ last_read.line = "object"
    /\ last_read.entry.upstream_addr = StrV(a_blue_not_last)
    /\ last_read.pool = <<>>
    /\ pc = "tail"

\* What C13 says of a record: an error iff its status is present, numeric and
\* at least 500, or else its upstream_status, as text, starts with "5"; a
\* status that is no number counts as absent.
Verdict_C13(entry) ==
    LET numeric == \/ entry.status.t = "int"
                   \/ entry.status.t = "str" /\ IntParses(entry.status.v)
    IN  \/ numeric /\ IntOf(entry.status) >= 500
        \/ /\ entry.upstream_status.t \in {"int", "str"}
           /\ StrOf(entry.upstream_status) # <<>>
           /\ StrOf(entry.upstream_status)[1] = "5"

\* C13: every record handled has that verdict pushed into the window, and
\* handling it does not end the loop, a non-numeric status included.
C13_Step ==
    HandlesRecord
    => /\ pushed' = Append(pushed, Verdict_C13(last_read'.entry))
       /\ pc' = "tail"

C13_ErrorVerdict == [][C13_Step]_vars

\* a step in which check_error_rate ran: called on its own, or by a record
\* handled to the end whose push left at least MinSamples entries
RateEvaluated ==
    \/ last_read'.line = "check_error_rate"
    \/ HandlesRecord /\ pushed' # pushed /\ Len(request_window') >= MinSamples

\* the window holds at least 20 entries, its error rate (100 * errors /
\* entries) is strictly above the threshold, and the time read is at least
\* alert_cooldown past last_error_rate_alert
RateAlertDue ==
    /\ Len(request_window') >= MinSamples
    /\ 100 * Trues(request_window') > error_rate_threshold * Len(request_window')
    /\ now' - last_error_rate_alert >= alert_cooldown

\* C14: check_error_rate raises an alert and stamps last_error_rate_alert
\* with the time it read exactly when the alert is due in that sense (a rate
\* equal to the threshold, or fewer than 20 entries, is not); otherwise it
\* sends nothing and leaves the stamp alone.
C14_Step ==
    /\ (RateEvaluated /\ RateAlertDue)
       => /\ \E i \in NewCallsOf("error_rate") :
                 NewCallsOf("error_rate") = {i} /\ calls'[i].at = now'
          /\ last_error_rate_alert' = now'
    /\ (RateEvaluated /\ ~RateAlertDue)
       => /\ NewCallsOf("error_rate") = {}
          /\ last_error_rate_alert' = last_error_rate_alert

C14_AlertExactlyWhenDue == [][C14_Step]_vars

\* the target and the time of the latest failover alert raised so far
LatestFailover ==
    IF CallsOf("failover") = {}
    THEN [pool |-> active_pool, at |-> NeverAlerted]
    ELSE LET latest == CHOOSE i \in CallsOf("failover") :
                           \A j \in CallsOf("failover") : j <= i
         IN  [pool |-> calls[latest].pool, at |-> calls[latest].at]

\* C15: a record of a pool P other than the target of the latest failover
\* alert, handled at a time at least alert_cooldown past that alert, raises
\* a failover alert naming that target and P, and sets last_pool to P and
\* last_failover_alert to that time, whatever was suppressed in between.
\* (The window is below the minimum sample count here, so the time a step
\* reads is the one check_failover read.)
C15_Step ==
    (/\ HandlesRecord
     /\ last_read'.pool # <<>>
     /\ last_read'.pool # LatestFailover.pool
     /\ now' - LatestFailover.at >= alert_cooldown)
    => /\ \E i \in NewCallsOf("failover") :
              /\ NewCallsOf("failover") = {i}
              /\ calls'[i].old_pool = LatestFailover.pool
              /\ calls'[i].pool = last_read'.pool
              /\ calls'[i].at = now'
       /\ last_pool' = last_read'.pool
       /\ last_failover_alert' = now'

C15_SuppressedChangeNotLost == [][C15_Step]_vars

\* after a failover alert, a change back was suppressed by the cooldown and
\* a later record of the same pool has raised the alert for it
C15_Witness ==
    /\ last_read.line = "object"
    /\ last_read.held # <<>>
    /\ last_read.held = last_read.pool
    /\ last_pool = last_read.pool
    /\ last_failover_alert = now
    /\ Cardinality(CallsOf("failover")) >= 2

\* C16: a record handled to the end counts once and pushes one outcome; the
\* rate evaluated is that of the window with this outcome in it; a failover
\* alert of the step precedes its error-rate alert in the call history, is
\* not timed after it, and the error-rate alert names the pool the failover
\* alert moved last_pool to.
C16_Step ==
    (HandlesRecord /\ ~last_read'.raises)
    => /\ log_count' = log_count + 1
       /\ Len(pushed') = Len(pushed) + 1
       /\ SubSeq(pushed', 1, Len(pushed)) = pushed
       /\ request_window'[Len(request_window')] = pushed'[Len(pushed')]
       /\ Len(request_window') >= MinSamples
          => /\ last_rate'.num = 100 * Trues(request_window')
             /\ last_rate'.den = Len(request_window')
       /\ \A j \in NewCallsOf("error_rate") :
              /\ calls'[j].errors = Trues(request_window')
              /\ calls'[j].total = Len(request_window')
              /\ calls'[j].pool = last_pool'
              /\ \A i \in NewCallsOf("failover") :
                     /\ i < j
                     /\ calls'[i].at <= calls'[j].at
                     /\ calls'[j].pool = calls'[i].pool
       /\ last_read'.alerts \in {<<>>, <<"failover">>, <<"error_rate">>,
                                 <<"failover", "error_rate">>}

C16_OrderWithinRecord == [][C16_Step]_vars

\* one record, a failed request of the other pool, has raised both alerts
C16_Witness ==
    /\ last_read.line = "object"
    /\ last_read.alerts = <<"failover", "error_rate">>
    /\ pushed[Len(pushed)]
    /\ calls[Len(calls)].errors = 1
    /\ calls[Len(calls)].pool = last_read.pool
    /\ calls[Len(calls)].pool # active_pool

\* the addresses explored in which C12's rules find no pool
Undetected == {address \in Addresses : Expected_C12[address] = <<>>}

\* C17: a record whose pool field is absent, empty or "-" and whose upstream
\* address names no pool leaves last_pool and last_failover_alert alone and
\* raises no failover alert; its error verdict is pushed all the same and,
\* from MinSamples entries on, the rate is evaluated on the window with it
\* and the error-rate alert raised when due.
C17_Step ==
    (/\ HandlesRecord
     /\ ~last_read'.raises
     /\ last_read'.entry.pool \in {Absent, NoneV, StrV(<<>>), StrV(<<"-">>)}
     /\ last_read'.entry.upstream_addr \in Undetected)
    => /\ UNCHANGED <<last_pool, last_failover_alert>>
       /\ NewCallsOf("failover") = {}
       /\ pushed' = Append(pushed, Verdict_C13(last_read'.entry))
       /\ request_window'[Len(request_window')] = Verdict_C13(last_read'.entry)
       /\ Len(request_window') >= MinSamples
          => /\ last_rate'.num = 100 * Trues(request_window')
             /\ last_rate'.den = Len(request_window')
             /\ RateAlertDue <=> NewCallsOf("error_rate") # {}

C17_UnknownPoolSkipsFailoverOnly == [][C17_Step]_vars

\* a failed request of undetermined pool has raised the error-rate alert,
\* after a failover alert had moved last_pool
C17_Witness ==
    /\ last_read.line = "object"
    /\ last_read.entry.pool = StrV(<<>>)
    /\ last_read.pool = <<>>
    /\ last_read.alerts = <<"error_rate">>
    /\ pushed[Len(pushed)]
    /\ last_pool # active_pool

\* C18: check_failover leaves the window and last_error_rate_alert alone and
\* makes no error-rate call, and alerts exactly when the pool differs from
\* last_pool and the time it read is alert_cooldown past last_failover_alert;
\* check_error_rate leaves last_pool and last_failover_alert alone and makes
\* no failover call, and alerts exactly when the window holds MinSamples
\* entries, the rate it computed is above the threshold and the time it read
\* is alert_cooldown past last_error_rate_alert; and a record changes either
\* stamp only with an alert of that detector.
C18_Step ==
    /\ last_read'.line = "check_failover"
       => /\ UNCHANGED <<request_window, pushed, last_error_rate_alert, last_rate>>
          /\ NewCallsOf("error_rate") = {}
          /\ NewCallsOf("failover") # {}
             <=> /\ last_read'.pool # <<>>
                 /\ last_read'.pool # last_pool
                 /\ now' - last_failover_alert >= alert_cooldown
    /\ last_read'.line = "check_error_rate"
       => /\ UNCHANGED <<request_window, pushed, last_pool, last_failover_alert>>
          /\ NewCallsOf("failover") = {}
          /\ NewCallsOf("error_rate") # {}
             <=> /\ Len(request_window) >= MinSamples
                 /\ Exceeds(last_rate'.value, error_rate_threshold)
                 /\ now' - last_error_rate_alert >= alert_cooldown
    /\ last_error_rate_alert' # last_error_rate_alert
       => NewCallsOf("error_rate") # {} /\ last_error_rate_alert' = now'
    /\ (last_failover_alert' # last_failover_alert \/ last_pool' # last_pool)
       => NewCallsOf("failover") # {}

C18_DetectorsIndependent == [][C18_Step]_vars

\* an error-rate alert raised within the cooldown of a failover alert, and
\* not delayed by it
C18_Witness ==
    /\ last_read.line = "check_error_rate"
    /\ last_read.alerts = <<"error_rate">>
    /\ CallsOf("failover") # {}
    /\ last_failover_alert # NeverAlerted
    /\ last_error_rate_alert - last_failover_alert < alert_cooldown
    /\ last_error_rate_alert >= last_failover_alert

\* the time of the latest error-rate alert raised so far
LatestErrorRateAlert ==
    IF CallsOf("error_rate") = {} THEN NeverAlerted
    ELSE LET latest == CHOOSE i \in CallsOf("error_rate") :
                           \A j \in CallsOf("error_rate") : j <= i
         IN  calls[latest].at

\* C19: in every notifier configuration and whatever the transport does,
\* the detector state is the same function of the alerts raised and of the
\* detector's inputs: last_pool and last_failover_alert are the target and
\* time of the latest failover alert raised, last_error_rate_alert the time
\* of the latest error-rate alert raised, delivered or not; and a detector
\* called on its own moves them as its pool or window, its own stamp and
\* the time it read dictate, with no regard to the notifier.
C19_Step ==
    /\ last_pool' = LatestFailover'.pool
    /\ last_failover_alert' = LatestFailover'.at
    /\ last_error_rate_alert' = LatestErrorRateAlert'
    /\ last_read'.line = "check_failover"
       => <<last_pool', last_failover_alert'>> =
              IF /\ last_read'.pool # <<>>
                 /\ last_read'.pool # last_pool
                 /\ now' - last_failover_alert >= alert_cooldown
              THEN <<last_read'.pool, now'>>
              ELSE <<last_pool, last_failover_alert>>
    /\ last_read'.line = "check_error_rate"
       => last_error_rate_alert' =
              IF /\ Len(request_window) >= MinSamples
                 /\ Exceeds(last_rate'.value, error_rate_threshold)
                 /\ now' - last_error_rate_alert >= alert_cooldown
              THEN now'
              ELSE last_error_rate_alert
    /\ request_window' = LastN(pushed', Min(Len(pushed'), window_size))
    /\ (HandlesRecord /\ ~last_read'.raises)
       => pushed' = Append(pushed, Verdict_C13(last_read'.entry))
    /\ NewCalls # {}
       => /\ last_send'.attempted = Attempts(last_send'.type)
          /\ last_send'.result => last_send'.attempted

C19_StateIgnoresNotifier == [][C19_Step]_vars

\* a failover alert that maintenance mode kept from being posted has moved
\* last_pool and started the cooldown
C19_Witness ==
    /\ last_read.line = "check_failover"
    /\ last_read.alerts = <<"failover">>
    /\ slack_webhook
    /\ maintenance_mode
    /\ ~last_send.attempted
    /\ last_pool = last_read.pool
    /\ last_pool # active_pool
    /\ last_failover_alert = now

\* C20: with a window capacity below 20 the window never holds 20 entries,
\* check_error_rate never gets to compute a rate, and no error-rate alert is
\* ever raised: last_error_rate_alert keeps its initial value.
C20_SmallWindowNeverAlerts ==
    window_size < MinSamples
    => /\ Len(request_window) < MinSamples
       /\ CallsOf("error_rate") = {}
       /\ last_error_rate_alert = NeverAlerted
       /\ last_rate.den = 0

\* a full small window with a failed request in it, a rate far above the
\* threshold, and the clock past the cooldown
C20_Witness ==
    /\ window_size < MinSamples
    /\ Len(request_window) = window_size
    /\ Len(pushed) > window_size
    /\ 100 * Trues(request_window) > error_rate_threshold * Len(request_window)
    /\ now >= alert_cooldown
    /\ pc = "tail"

====
